---- MODULE Spec2Model ----
(***************************************************************************)
(* Token cache and process singleton of the SAP AI Core samples.           *)
(*                                                                         *)
(* SAPTokenManager (sap_multiagent_sample/sap_token_manager.py, and its    *)
(* near duplicate sap_sample/token_manager.py) caches one OAuth2 token     *)
(* with its expiry behind a threading.Lock; get_token_manager() hands out  *)
(* one shared instance with double-checked locking.                        *)
(*                                                                         *)
(* Several threads call the operations concurrently.  Every operation is   *)
(* cut into the steps at which another thread can observe or change the    *)
(* shared state: a lock acquisition, the HTTP exchange, each assignment    *)
(* to self.token / self.expires_at, each unlocked read of is_token_valid.  *)
(*                                                                         *)
(* Python's None is the empty tuple, a present value x is <<x>>.  A value  *)
(* taken from a JSON body keeps its Python type: [str |-> s], [int |-> n], *)
(* [bool |-> b], [list |-> l], [object |-> o].                             *)
(* Time is in seconds; datetime values are seconds on the local wall       *)
(* clock, which datetime.now() reads.                                      *)
(***************************************************************************)
EXTENDS Integers, Sequences, FiniteSets, TLC

\* ------------------------------------------------------------------ bounds
\* The wall clock shows a value from 0 to MaxNow seconds.
MaxNow == 2
\* requests.post is called at most MaxExch times.
MaxExch == 2
\* At most MaxConstruct times SAPTokenManager() is constructed.
MaxConstruct == 2

\* The calling threads (agents sharing the manager).
Threads == {"t1", "t2"}

\* --------------------------------------------------------- program values
None == <<>>
Some(x) == <<x>>
Val(o) == o[1]

\* timedelta(seconds=expires_in - 300)
SafetyMargin == 300
\* data.get('expires_in', 3600)
DefaultExpiresIn == 3600

\* Values of an environment variable: unset (os.getenv gives None), set to
\* the empty string, set to a non-empty value.
EnvValues == {None, Some(""), Some("v")}

\* A non-empty value with a character outside Latin-1 (such as U+20AC in
\* a client secret).
NonLatin1 == Some("v+U20AC")

\* Values of AICORE_CLIENT_ID and AICORE_CLIENT_SECRET.
CredentialValues == EnvValues \cup {NonLatin1}

\* A non-empty AICORE_AUTH_URL without a scheme (such as "host.example");
\* Some("v") stands for a URL with one.
NoScheme == Some("host")

\* A non-empty AICORE_AUTH_URL with a scheme that requests refuses all the
\* same while it prepares the URL: no host ("http://"), a port that is no
\* number, an invalid host label.
NoHost == Some("http://")

\* Values of AICORE_AUTH_URL.
UrlValues == EnvValues \cup {NoScheme, NoHost}

\* Values of AICORE_RESOURCE_GROUP: unset or set.
GroupValues == {None, Some("rgE")}

\* resource_group arguments of get_auth_headers: omitted (None) or given.
GroupArgs == {None, Some("rgA")}

\* JSON values as the Python objects json gives: str, int, bool, list and
\* dict (a JSON object).
JStr(s) == [str |-> s]
JInt(n) == [int |-> n]
JBool(b) == [bool |-> b]
JList(l) == [list |-> l]
JObject(o) == [object |-> o]
IsStr(v) == "str" \in DOMAIN v
IsInt(v) == "int" \in DOMAIN v
IsBool(v) == "bool" \in DOMAIN v
IsList(v) == "list" \in DOMAIN v
IsObject(v) == "object" \in DOMAIN v

\* Values under 'access_token' in a response body.  The server decides
\* what it sends, at each exchange anew: the token of the exchange before
\* or another one, and line 64 stores any JSON value.  One value of each
\* kind the code treats differently:
\*   null    : self.token is None
\*   ""      : a str that is falsy
\*   "T1"    : a str that is truthy, and "T2", a second one
\*   12345   : a value that is truthy and no str
\*   0, false, [], {} : values that are falsy and no str
AccessTokenValues ==
    {None, Some(JStr("")), Some(JStr("T1")), Some(JStr("T2")),
     Some(JInt(12345)), Some(JInt(0)), Some(JBool(FALSE)),
     Some(JList(<<>>)), Some(JObject(<<>>))}

\* expires_in values of a response body: just below, equal to and just
\* above the safety margin; "absent" when the key is missing; "bad" for a value line
\* 67 cannot turn into an expiry, with the exception it raises there:
\*   TypeError     : JSON null or a string (expires_in - 300)
\*   ValueError    : NaN (timedelta(seconds=nan))
\*   OverflowError : Infinity or 1e30 (timedelta out of range)
Lifetimes == {299, 300, 301}
ExpiryErrors == {"TypeError", "ValueError", "OverflowError"}
ExpiresInValues ==
    {[kind |-> "int", v |-> l] : l \in Lifetimes}
        \cup {[kind |-> "absent"]}
        \cup {[kind |-> "bad", raises |-> x] : x \in ExpiryErrors}

\* Exceptions of lines 54-64 (requests.post .. data['access_token']),
\* raised before anything is assigned.
\*   MissingSchema      : requests.post raised while it prepared the URL:
\*                        AICORE_AUTH_URL has no scheme; it is a
\*                        requests.exceptions.RequestException
\*   InvalidURL         : requests.post raised while it prepared the URL:
\*                        AICORE_AUTH_URL has a scheme but no usable host
\*                        or port; it is a RequestException too
\*   UnicodeEncodeError : requests.post raised while it encoded the basic
\*                        auth header: client id or secret has a character
\*                        outside Latin-1; nothing goes to the network
\*   OSError            : requests.post raised while it set up TLS
\*                        verification (the CA bundle named by
\*                        REQUESTS_CA_BUNDLE is not there)
\*   ConnectionError    : requests.post raised a RequestException
\*                        (transport error, timeout)
\*   HTTPError          : raise_for_status raised (non-2xx status)
\*   JSONDecodeError    : response.json() raised (the body is no JSON); it
\*                        is a requests.exceptions.RequestException
\*   RecursionError     : response.json() raised on a body nested too deep
\*   ValueError         : response.json() raised on an integer literal
\*                        longer than the int digit limit
\*   TypeError          : the body is JSON but no object (a list, null, a
\*                        string), data['access_token'] raised
\*   KeyError           : the body is an object without access_token
FailureKinds ==
    {"MissingSchema", "InvalidURL", "UnicodeEncodeError", "OSError",
     "ConnectionError", "HTTPError", "JSONDecodeError", "RecursionError",
     "ValueError", "TypeError", "KeyError"}

\* Encodings of sys.stdout (PYTHONIOENCODING / locale): one that can encode
\* every character and one that can encode ASCII only.
StdoutEncodings == {"utf-8", "ascii"}

\* Error handlers of sys.stdout: strict (PYTHONIOENCODING, most locales)
\* and surrogateescape (what python3 sets up in the C and POSIX locales),
\* which writes a lone surrogate U+DC80..U+DCFF as the byte it stands for.
StdoutErrors == {"strict", "surrogateescape"}

\* sys.stdout as print uses it: its encoding and its error handler.
Stdouts == [encoding : StdoutEncodings, errors : StdoutErrors]
Utf8Strict == [encoding |-> "utf-8", errors |-> "strict"]
Utf8Escape == [encoding |-> "utf-8", errors |-> "surrogateescape"]
AsciiStrict == [encoding |-> "ascii", errors |-> "strict"]

\* Texts an exception can carry, by what print needs to write them: ASCII
\* only; a character outside ASCII; ASCII with a lone surrogate (as
\* os.getenv puts into a URL for a byte that is no UTF-8), which no
\* encoding writes and only the surrogateescape handler lets through.
MessageKinds == {"ascii", "non-ascii", "surrogate"}

NoThread == "free"

VARIABLES
    env,         \* AICORE_AUTH_URL, AICORE_CLIENT_ID, AICORE_CLIENT_SECRET,
                 \* AICORE_RESOURCE_GROUP, and sys.stdout
    instance,    \* _token_manager_instance: None or Some(id of the object)
    ilock,       \* holder of _instance_lock
    nconstruct,  \* number of SAPTokenManager() constructions begun
    token,       \* self.token
    expires_at,  \* self.expires_at
    lock,        \* holder of self.lock
    now,         \* datetime.now(): the local wall clock
    exch,        \* number of requests.post calls begun
    inflight,    \* number of requests.post calls begun and not yet ended
    tokGen,      \* the exchange (by number) that wrote self.token
    expGen,      \* the exchange (by number) that wrote self.expires_at
    expLife,     \* expires_in (3600 when absent) behind self.expires_at,
                 \* 0 while it is None
    pc,          \* per thread: where it is in its current call
    op,          \* per thread: the operation of its current or last call
    ref,         \* per thread: the manager it got from get_token_manager
    ret,         \* per thread: the value its last call returned
    err,         \* per thread: the exception its last call raised, or "none"
    pend,        \* per thread: expires_in of the response it is processing
    didExch,     \* per thread: whether its current/last call called
                 \* requests.post
    obs,         \* per thread: what is_token_valid read: <<tokGen, expGen>>
    stored,      \* per thread: whether line 64 ran in its current/last call
    batch,       \* all threads called get_token together on a stale cache
    rg,          \* per thread: resource_group of its get_auth_headers call,
                 \* as given by the caller and as resolved at lines 85-86
    loc,         \* per thread: locals of its call: the value datetime.now()
                 \* returned at line 67 or 108, and the value get_token()
                 \* returned to get_auth_headers at line 89
    sample       \* the manager of sap_sample/token_manager.py driven by the
                 \* same calls, clock and responses: its token, its
                 \* expires_at, and whether every decision and result of it
                 \* so far was the one of this manager

vars == <<env, instance, ilock, nconstruct, token, expires_at, lock, now,
          exch, inflight, tokGen, expGen, expLife, pc, op, ref, ret, err,
          pend, didExch, obs, stored, batch, rg, loc, sample>>

envVars == <<env, rg>>
singletonVars == <<instance, ilock, nconstruct>>
cacheVars ==
    <<token, expires_at, lock, tokGen, expGen, expLife, sample>>
netVars == <<exch, inflight>>

\* ------------------------------------------------------- pure operators

\* Python truthiness of an Optional[str] read from the environment:
\* `not x` is true of None and of "".
FalsyStr(x) == x = None \/ x = Some("")

\* Python truthiness of self.token: `not x` is true of None, "", 0, False,
\* [] and {}.
Falsy(x) ==
    \/ x = None
    \/ IsStr(Val(x)) /\ Val(x).str = ""
    \/ IsInt(Val(x)) /\ Val(x).int = 0
    \/ IsBool(Val(x)) /\ ~Val(x).bool
    \/ IsList(Val(x)) /\ Val(x).list = <<>>
    \/ IsObject(Val(x)) /\ Val(x).object = <<>>

\* Python truthiness of an Optional[datetime]: only None is falsy.
FalsyDatetime(x) == x = None

\* Faulty variant: the settings are tested with `is not None`, so an empty value
\* passes.
ConfigOk_NotNone(e) ==
    /\ e.auth_url # None
    /\ e.client_id # None
    /\ e.client_secret # None

\* __init__ line 29: all([self.auth_url, self.client_id, self.client_secret])
ConfigOk(e) ==
    /\ ~FalsyStr(e.auth_url)
    /\ ~FalsyStr(e.client_id)
    /\ ~FalsyStr(e.client_secret)

\* requests.post lines 54-59, auth=(self.client_id, self.client_secret):
\* the two are encoded as Latin-1 for the Authorization header.
CredentialsEncode(e) ==
    /\ e.client_id # NonLatin1
    /\ e.client_secret # NonLatin1

\* requests.post lines 54-59 on f"{self.auth_url}/oauth/token": the URL is
\* prepared first and needs a scheme,
HasScheme(e) == e.auth_url # NoScheme

\* and then a host and port that parse.
HasHost(e) == e.auth_url # NoHost

\* Faulty variant: the expiry comparison is inverted (refresh while still valid).
NeedsRefresh_Inverted(tok, exp, n) ==
    \/ Falsy(tok)
    \/ FalsyDatetime(exp)
    \/ n < Val(exp)

\* Faulty variant: the staleness test looks only at whether something is
\* cached, not at the clock.
NeedsRefresh_IgnoresExpiry(tok, exp, n) ==
    \/ Falsy(tok)
    \/ FalsyDatetime(exp)

\* get_token line 45: the staleness test made under the lock.
NeedsRefresh(tok, exp, n) ==
    \/ Falsy(tok)
    \/ FalsyDatetime(exp)
    \/ n >= Val(exp)

\* Faulty variant: force_refresh makes the staleness test of get_token.
ForceNeedsRefresh_Tested(tok, exp, n) == NeedsRefresh(tok, exp, n)

\* force_refresh lines 96-97: _refresh_token is called with no test.
ForceNeedsRefresh(tok, exp, n) == TRUE

\* _refresh_token line 66: data.get('expires_in', 3600)
ExpiresIn(e) == IF e.kind = "absent" THEN DefaultExpiresIn ELSE e.v

\* Faulty variant: the expiry is the full lifetime, no safety margin.
ComputeExpiresAt_NoMargin(n, l) == n + l

\* Faulty variant: a lifetime below the safety margin is clamped, so that the
\* expiry is never before the issue time.
ComputeExpiresAt_Clamped(n, l) ==
    IF l < SafetyMargin THEN n ELSE n + (l - SafetyMargin)

\* _refresh_token line 67: datetime.now() + timedelta(seconds=expires_in - 300)
ComputeExpiresAt(n, l) == n + (l - SafetyMargin)

\* _refresh_token line 67: the exception it raises on this expires_in, or
\* "none".
ExpiryError(e) == IF e.kind = "bad" THEN e.raises ELSE "none"

\* Faulty variant: the expiry instant itself still counts as valid (<= for <).
IvNotExpired_Inclusive(n, exp) == n <= Val(exp)

\* is_token_valid line 108: datetime.now() < self.expires_at
IvNotExpired(n, exp) == n < Val(exp)

\* is_token_valid lines 106-108, evaluated on one snapshot.
IsTokenValid(tok, exp, n) ==
    IF Falsy(tok) \/ FalsyDatetime(exp) THEN FALSE ELSE IvNotExpired(n, exp)

\* Faulty variant: the lock does not exclude (acquire never blocks).
CanAcquire_NoExclusion(l) == TRUE

\* No get_auth_headers call in progress.
NoGroup == [given |-> None, resolved |-> None]

\* Faulty variant: the argument is ignored, the environment always decides.
ResolveGroup_IgnoresArg(arg, e) ==
    IF e.resource_group = None THEN Some("default") ELSE e.resource_group

\* get_auth_headers lines 85-86: the argument, or when it is None
\* os.getenv('AICORE_RESOURCE_GROUP', 'default').
ResolveGroup(arg, e) ==
    IF arg # None THEN arg
    ELSE IF e.resource_group = None THEN Some("default")
         ELSE e.resource_group

\* str(x) as an f-string formats it (the lists and dicts here are empty).
Format(x) ==
    IF x = None THEN "None"
    ELSE IF IsStr(Val(x)) THEN Val(x).str
    ELSE IF IsInt(Val(x)) THEN ToString(Val(x).int)
    ELSE IF IsBool(Val(x)) THEN (IF Val(x).bool THEN "True" ELSE "False")
    ELSE IF IsList(Val(x)) THEN "[]"
    ELSE "{}"

\* get_auth_headers line 89: f'Bearer {self.get_token()}'
Bearer(tok) == <<"Bearer ", Format(tok)>>

\* get_auth_headers lines 88-92: the returned dict.
Headers(tok, g) ==
    [Authorization |-> Bearer(tok),
     AIResourceGroup |-> Val(g),
     ContentType |-> "application/json"]

\* _refresh_token line 71: the exception classes that
\* `except requests.exceptions.RequestException` matches.
ErrorClass(k) ==
    IF k \in {"MissingSchema", "InvalidURL", "ConnectionError",
              "HTTPError", "JSONDecodeError"}
    THEN "RequestException"
    ELSE k

\* Whether print raises UnicodeEncodeError on a text of kind m: never on
\* ASCII text; on a lone surrogate unless the error handler of sys.stdout
\* is surrogateescape; on another character when sys.stdout has an
\* encoding without it, whatever the handler.
PrintRaises(e, m) ==
    \/ m = "surrogate" /\ e.stdout.errors = "strict"
    \/ m = "non-ascii" /\ e.stdout.encoding # "utf-8"

\* The exceptions lines 54-64 can raise in environment e.  requests.post
\* prepares the URL, then the auth header, then opens the connection: a
\* URL without scheme always ends in MissingSchema, else one without a
\* usable host always ends in InvalidURL, else credentials outside Latin-1
\* always end in UnicodeEncodeError, else the request is made and any of
\* the other exceptions can come.
CanFailWith(e, k) ==
    IF ~HasScheme(e) THEN k = "MissingSchema"
    ELSE IF ~HasHost(e) THEN k = "InvalidURL"
    ELSE IF ~CredentialsEncode(e) THEN k = "UnicodeEncodeError"
    ELSE k \in FailureKinds
                \ {"MissingSchema", "InvalidURL", "UnicodeEncodeError"}

\* _refresh_token lines 71-73: a RequestException is caught, its text is
\* printed and it is raised again; when the print raises, that exception
\* leaves the handler instead.  Any other exception passes through.
Reraised(k, m, e) ==
    IF ErrorClass(k) = "RequestException" /\ PrintRaises(e, m)
    THEN "UnicodeEncodeError"
    ELSE k

\* Faulty variant: the lock is released only on the normal exit, an exception
\* leaves it held (acquire/release without try/finally).
ReleaseOnRaise_Kept(l) == l

\* get_token line 43 and force_refresh line 96: `with self.lock` releases
\* the lock when the block is left by an exception.
ReleaseOnRaise(l) == NoThread

\* threading.Lock: acquire succeeds only on a lock nobody holds.
CanAcquire(l) == l = NoThread

\* Faulty variant: no unguarded check, every call goes for _instance_lock.
FirstCheckIsNone_Always(i) == TRUE

\* get_token_manager line 126: `_token_manager_instance is None`, unguarded.
FirstCheckIsNone(i) == i = None

\* Faulty variant: no second check under the lock.
SecondCheckIsNone_Skipped(i) == TRUE

\* get_token_manager line 129: `_token_manager_instance is None`, under
\* _instance_lock.
SecondCheckIsNone(i) == i = None

\* ------------------------------------------------------------ initial state
NotRead == 0 - 1
NoPend == [kind |-> "absent"]
NoLocals == [clock |-> NotRead, tok |-> None]

\* ------------------------------------- sap_sample/token_manager.py
\* The first sample's SAPTokenManager, translated from its own source.  It
\* has no try/except in _refresh_token and no is_token_valid.

\* The sample manager after __init__ (lines 31-32 there).
NoSample == [token |-> None, expires_at |-> None, same |-> TRUE]

\* get_token, line 44 there.
SampleNeedsRefresh(tok, exp, n) ==
    Falsy(tok) \/ FalsyDatetime(exp) \/ n >= Val(exp)

\* force_refresh, lines 90-91 there: _refresh_token is called untested.
SampleForceNeedsRefresh(tok, exp, n) == TRUE

\* Line 64 there: data.get('expires_in', 3600).
SampleExpiresIn(e) == IF e.kind = "absent" THEN 3600 ELSE e.v

\* Line 65 there: datetime.now() + timedelta(seconds=expires_in - 300).
SampleComputeExpiresAt(n, l) == n + (l - 300)

\* Lines 52-62 there raising: nothing was assigned.
SampleAfterFailure(c) == c

\* Line 67 there: print of a text beginning with U+2713; it raises
\* UnicodeEncodeError when sys.stdout cannot encode that character.
SamplePrintRaises(e) == PrintRaises(e, "non-ascii")

\* No except clause there: the exception reaches the caller as raised.
SampleRaised(k) == k

\* get_auth_headers, lines 79-80 there.
SampleResolveGroup(arg, e) ==
    IF arg = None
    THEN IF e.resource_group = None THEN Some("default")
                                    ELSE e.resource_group
    ELSE arg

\* get_auth_headers, lines 82-86 there.
SampleHeaders(tok, g) ==
    [Authorization |-> Bearer(tok),
     AIResourceGroup |-> Val(g),
     ContentType |-> "application/json"]

\* The process starts with its environment set (load_dotenv at import), no
\* instance, free locks and every thread outside any call.
Init ==
    /\ env \in [auth_url : UrlValues, client_id : CredentialValues,
                client_secret : CredentialValues,
                resource_group : GroupValues, stdout : Stdouts]
    /\ instance = None
    /\ ilock = NoThread
    /\ nconstruct = 0
    /\ token = None
    /\ expires_at = None
    /\ lock = NoThread
    /\ now = 0
    /\ exch = 0
    /\ inflight = 0
    /\ tokGen = 0
    /\ expGen = 0
    /\ expLife = 0
    /\ pc = [t \in Threads |-> "idle"]
    /\ op = [t \in Threads |-> "none"]
    /\ ref = [t \in Threads |-> None]
    /\ ret = [t \in Threads |-> None]
    /\ err = [t \in Threads |-> "none"]
    /\ pend = [t \in Threads |-> NoPend]
    /\ didExch = [t \in Threads |-> FALSE]
    /\ obs = [t \in Threads |-> <<NotRead, NotRead>>]
    /\ stored = [t \in Threads |-> FALSE]
    /\ batch = FALSE
    /\ rg = [t \in Threads |-> NoGroup]
    /\ loc = [t \in Threads |-> NoLocals]
    /\ sample = NoSample

\* The value a call returns, kept with its Python type: self.token as it
\* is (get_token), a bool (is_token_valid), a dict (get_auth_headers) or
\* the manager object (get_token_manager).  None stays None.
PyBool(b) == Some([bool |-> b])
PyDict(h) == Some([dict |-> h])
PyObj(i) == IF i = None THEN None ELSE Some([obj |-> Val(i)])

\* A thread enters operation o at program point p with fresh locals.
Enter(t, o, p) ==
    /\ pc' = [pc EXCEPT ![t] = p]
    /\ op' = [op EXCEPT ![t] = o]
    /\ ret' = [ret EXCEPT ![t] = None]
    /\ err' = [err EXCEPT ![t] = "none"]
    /\ didExch' = [didExch EXCEPT ![t] = FALSE]
    /\ obs' = [obs EXCEPT ![t] = <<NotRead, NotRead>>]
    /\ stored' = [stored EXCEPT ![t] = FALSE]
    /\ rg' = [rg EXCEPT ![t] = NoGroup]

\* The call of thread t returns value v.
Return(t, v) ==
    /\ pc' = [pc EXCEPT ![t] = "idle"]
    /\ ret' = [ret EXCEPT ![t] = v]

\* The call of thread t raises exception e.
Raise(t, e) ==
    /\ pc' = [pc EXCEPT ![t] = "idle"]
    /\ err' = [err EXCEPT ![t] = e]

\* ------------------------------------------------------------------ clock
\* datetime.now() is the naive local time: it goes on, and it steps back
\* when the zone leaves daylight saving time or the clock is set.
Tick ==
    /\ \E n \in 0..MaxNow : n # now /\ now' = n
    /\ UNCHANGED <<envVars, singletonVars, cacheVars, netVars, pc, op, ref, ret,
                   err, pend, loc, didExch, obs, stored, batch>>

\* ------------------------------------------------------------ environment
\* AICORE_RESOURCE_GROUP is set, changed or unset in the process
\* environment (os.environ) while the program runs.
SetGroup ==
    /\ \E g \in GroupValues \ {env.resource_group} :
          env' = [env EXCEPT !.resource_group = g]
    /\ UNCHANGED <<rg, singletonVars, cacheVars, netVars, now, pc, op, ref,
                   ret, err, pend, loc, didExch, obs, stored, batch>>

\* ------------------------------------------------- get_token_manager()
\* Calls in progress that may still construct.
MayConstruct == {u \in Threads : pc[u] \in {"gm_lock", "gm_recheck"}}

\* Line 126: the unguarded first check.  An instance seen here is returned
\* without the lock; otherwise the caller goes for _instance_lock.
GmFirstCheck(t) ==
    /\ pc[t] = "idle"
    /\ nconstruct + Cardinality(MayConstruct) < MaxConstruct
    /\ Enter(t, "get_token_manager",
             IF FirstCheckIsNone(instance) THEN "gm_lock" ELSE "gm_return")
    /\ batch' = FALSE
    /\ UNCHANGED <<env, singletonVars, cacheVars, netVars, now, ref, pend, loc>>

\* Line 127: with _instance_lock.
GmLock(t) ==
    /\ pc[t] = "gm_lock"
    /\ CanAcquire(ilock)
    /\ ilock' = t
    /\ pc' = [pc EXCEPT ![t] = "gm_recheck"]
    /\ UNCHANGED <<envVars, instance, nconstruct, cacheVars, netVars, now, op,
                   ref, ret, err, pend, loc, didExch, obs, stored, batch>>

\* Lines 129-130 with __init__ (lines 19-33): the second check under the
\* lock; SAPTokenManager() sets token, expires_at and lock, reads the
\* environment and raises ValueError unless all three settings are truthy.
\* The with block releases _instance_lock on both exits.
GmRecheck(t) ==
    /\ pc[t] = "gm_recheck"
    /\ ilock' = NoThread
    /\ IF SecondCheckIsNone(instance)
       THEN /\ nconstruct' = nconstruct + 1
            /\ IF ConfigOk(env)
               THEN /\ instance' = Some(nconstruct + 1)
                    /\ token' = None
                    /\ expires_at' = None
                    /\ lock' = NoThread
                    /\ tokGen' = 0
                    /\ expGen' = 0
                    /\ expLife' = 0
                    /\ sample' = NoSample
                    /\ pc' = [pc EXCEPT ![t] = "gm_return"]
                    /\ UNCHANGED err
               ELSE /\ Raise(t, "ValueError")
                    /\ UNCHANGED <<instance, cacheVars>>
       ELSE /\ pc' = [pc EXCEPT ![t] = "gm_return"]
            /\ UNCHANGED <<instance, nconstruct, cacheVars, err>>
    /\ UNCHANGED <<envVars, netVars, now, op, ref, ret, pend, loc, didExch, obs,
                   stored, batch>>

\* Line 132: return _token_manager_instance (the global is read again).
GmReturn(t) ==
    /\ pc[t] = "gm_return"
    /\ Return(t, PyObj(instance))
    /\ ref' = [ref EXCEPT ![t] = instance]
    /\ UNCHANGED <<envVars, singletonVars, cacheVars, netVars, now, op, err,
                   pend, loc, didExch, obs, stored, batch>>

\* ------------------------------------------------------- _refresh_token()
\* Faulty variant: a request that fails is sent once more (one retry inside
\* the cache), so a call makes two exchanges.
StartExchange_Retrying(t) ==
    /\ exch < MaxExch
    /\ exch' = exch + 2
    /\ inflight' = inflight + 1
    /\ didExch' = [didExch EXCEPT ![t] = TRUE]

\* Lines 54-59: requests.post is called; the exchange is in flight.
StartExchange(t) ==
    /\ exch < MaxExch
    /\ exch' = exch + 1
    /\ inflight' = inflight + 1
    /\ didExch' = [didExch EXCEPT ![t] = TRUE]

\* Faulty variant: a failed exchange clears the cached credential.
AfterFailure_Clears(c) == <<None, None>>

\* Faulty variant: a failed exchange keeps the token but forgets its expiry.
AfterFailure_DropsExpiry(c) == <<c[1], None>>

\* The cached credential after an exchange that raised before line 64.
AfterFailure(c) == c

\* Lines 54-64, failing with one of the exceptions the environment allows
\* (CanFailWith).  A RequestException is caught at line 71; line 72 prints
\* its text, of any kind, before line 73 raises it again.  Every other
\* exception passes.  Nothing was assigned; the with block of the caller
\* releases the lock and the exception reaches the caller.
RfFail(t) ==
    /\ pc[t] = "rf_wait"
    /\ \E k \in FailureKinds, m \in MessageKinds :
          /\ CanFailWith(env, k)
          /\ Raise(t, Reraised(k, m, env))
          /\ sample' =
                [token |-> SampleAfterFailure(
                               <<sample.token, sample.expires_at>>)[1],
                 expires_at |-> SampleAfterFailure(
                                    <<sample.token, sample.expires_at>>)[2],
                 same |-> sample.same
                             /\ SampleRaised(k) = Reraised(k, m, env)]
    /\ inflight' = inflight - 1
    /\ token' = AfterFailure(<<token, expires_at>>)[1]
    /\ expires_at' = AfterFailure(<<token, expires_at>>)[2]
    /\ lock' = ReleaseOnRaise(lock)
    /\ rg' = [rg EXCEPT ![t] = NoGroup]
    /\ UNCHANGED <<env, singletonVars, tokGen, expGen, expLife, exch, now, op, ref,
                   ret, pend, loc, didExch, obs, stored, batch>>

\* Lines 54-64, succeeding: the response arrives with status 2xx and a
\* body holding access_token; line 64 assigns its value, whatever it is,
\* to self.token.
RfStoreToken(t) ==
    /\ pc[t] = "rf_wait"
    /\ HasScheme(env)
    /\ HasHost(env)
    /\ CredentialsEncode(env)
    /\ \E tok \in AccessTokenValues, e \in ExpiresInValues :
          /\ token' = tok
          /\ sample' = [sample EXCEPT !.token = tok]
          /\ pend' = [pend EXCEPT ![t] = e]
          /\ stored' = [stored EXCEPT ![t] = TRUE]
    /\ tokGen' = exch
    /\ inflight' = inflight - 1
    /\ pc' = [pc EXCEPT ![t] = "rf_expiry"]
    /\ UNCHANGED <<envVars, singletonVars, expires_at, lock, expGen, expLife, exch, now,
                   op, ref, ret, err, didExch, obs, batch, loc>>

\* Lines 66-67, first half: expires_in defaults to 3600 and datetime.now()
\* is called; the clock may go on before the sum is assigned.
RfReadClock(t) ==
    /\ pc[t] = "rf_expiry"
    /\ loc' = [loc EXCEPT ![t].clock = now]
    /\ pc' = [pc EXCEPT ![t] = "rf_store"]
    /\ UNCHANGED <<envVars, singletonVars, cacheVars, netVars, now, op, ref,
                   ret, err, pend, didExch, obs, stored, batch>>

\* Line 67, second half: timedelta(seconds=expires_in - 300) is added to
\* the clock value read and the sum assigned to self.expires_at.  A value
\* that gives no timedelta raises TypeError, ValueError or OverflowError
\* after self.token was assigned; the caller's with block releases the
\* lock.  In the sample manager the print of its line 67 then raises
\* UnicodeEncodeError when sys.stdout cannot encode the check mark.
RfStoreExpiry(t) ==
    /\ pc[t] = "rf_store"
    /\ pend' = [pend EXCEPT ![t] = NoPend]
    /\ loc' = [loc EXCEPT ![t].clock = NotRead]
    /\ IF ExpiryError(pend[t]) = "none"
       THEN /\ expires_at' =
                  Some(ComputeExpiresAt(loc[t].clock, ExpiresIn(pend[t])))
            /\ expGen' = tokGen
            /\ sample' =
                  [sample EXCEPT
                     !.expires_at = Some(SampleComputeExpiresAt(
                                      loc[t].clock, SampleExpiresIn(pend[t]))),
                     !.same = @ /\ ~SamplePrintRaises(env)]
            /\ expLife' = ExpiresIn(pend[t])
            /\ pc' = [pc EXCEPT ![t] =
                        IF op[t] = "force_refresh" THEN "fr_return"
                                                   ELSE "gt_return"]
            /\ UNCHANGED <<lock, err, rg>>
       ELSE /\ Raise(t, ExpiryError(pend[t]))
            /\ lock' = ReleaseOnRaise(lock)
            /\ rg' = [rg EXCEPT ![t] = NoGroup]
            /\ UNCHANGED <<expires_at, expGen, expLife, sample>>
    /\ UNCHANGED <<env, singletonVars, token, tokGen, netVars, now, op, ref,
                   ret, didExch, obs, stored, batch>>

\* ------------------------------------------------------------ get_token()
\* The call: the caller arrives at `with self.lock` (line 43).
GtCall(t) ==
    /\ pc[t] = "idle"
    /\ ref[t] # None
    /\ Enter(t, "get_token", "gt_lock")
    /\ batch' = (/\ \A u \in Threads \ {t} :
                        pc[u] = "gt_lock" /\ op[u] = "get_token"
                 /\ NeedsRefresh(token, expires_at, now))
    /\ UNCHANGED <<env, singletonVars, cacheVars, netVars, now, ref, pend, loc>>

\* Lines 43-46: the lock is acquired and the staleness test is made; a
\* stale cache sends the request (_refresh_token), a fresh one goes on to
\* the return.
GtEnter(t) ==
    /\ pc[t] = "gt_lock"
    /\ CanAcquire(lock)
    /\ lock' = t
    /\ IF NeedsRefresh(token, expires_at, now)
       THEN /\ StartExchange(t)
            /\ pc' = [pc EXCEPT ![t] = "rf_wait"]
       ELSE /\ pc' = [pc EXCEPT ![t] = "gt_return"]
            /\ UNCHANGED <<netVars, didExch>>
    /\ sample' = [sample EXCEPT !.same =
          @ /\ (SampleNeedsRefresh(sample.token, sample.expires_at, now)
                  <=> NeedsRefresh(token, expires_at, now))]
    /\ UNCHANGED <<envVars, singletonVars, token, expires_at, tokGen, expGen, expLife,
                   now, op, ref, ret, err, pend, loc, obs, stored, batch>>

\* Line 47: return self.token; the with block releases the lock.  Called
\* by the caller, the call is over; called from get_auth_headers (line
\* 89), the value is held by that call, which goes on without the lock.
GtReturn(t) ==
    /\ pc[t] = "gt_return"
    /\ lock' = NoThread
    /\ IF op[t] = "get_auth_headers"
       THEN /\ pc' = [pc EXCEPT ![t] = "ah_return"]
            /\ loc' = [loc EXCEPT ![t].tok = token]
            /\ UNCHANGED <<ret, rg>>
       ELSE /\ Return(t, token)
            /\ rg' = [rg EXCEPT ![t] = NoGroup]
            /\ UNCHANGED loc
    /\ sample' = [sample EXCEPT !.same = @ /\ sample.token = token]
    /\ UNCHANGED <<env, singletonVars, token, expires_at, tokGen, expGen, expLife,
                   netVars, now, op, ref, err, pend, didExch, obs, stored,
                   batch>>

\* Lines 88-92: get_auth_headers builds the dict around the value
\* get_token returned and returns it; the lock is not held.
AhReturn(t) ==
    /\ pc[t] = "ah_return"
    /\ Return(t, PyDict(Headers(loc[t].tok, rg[t].resolved)))
    /\ rg' = [rg EXCEPT ![t] = NoGroup]
    /\ loc' = [loc EXCEPT ![t].tok = None]
    /\ sample' = [sample EXCEPT !.same =
          @ /\ SampleHeaders(loc[t].tok, rg[t].resolved)
                  = Headers(loc[t].tok, rg[t].resolved)]
    /\ UNCHANGED <<env, singletonVars, token, expires_at, lock, tokGen,
                   expGen, expLife, netVars, now, op, ref, err, pend, didExch, obs,
                   stored, batch>>

\* ------------------------------------------------------- model requests
\* create_sap_openai_client / create_sap_client pass the value get_token()
\* returned as api_key to the client they build; each later
\* client.chat.completions.create (agent run) sends a request to the model
\* carrying that api_key.  The manager is not called again.
HasClient(t) ==
    /\ pc[t] = "idle"
    /\ op[t] = "get_token"
    /\ ret[t] # None

\* The request goes to the model endpoint; nothing of the manager is read
\* or written.
ChatRequest(t) ==
    /\ HasClient(t)
    /\ UNCHANGED vars

\* ------------------------------------------------------ get_auth_headers()
\* Lines 85-89: resource_group is resolved, then get_token is called and
\* the caller arrives at `with self.lock`.
AhCall(t) ==
    /\ pc[t] = "idle"
    /\ ref[t] # None
    /\ \E a \in GroupArgs :
          /\ rg' = [rg EXCEPT ![t] = [given |-> a,
                                      resolved |-> ResolveGroup(a, env)]]
          /\ sample' = [sample EXCEPT !.same =
                @ /\ SampleResolveGroup(a, env) = ResolveGroup(a, env)]
    /\ pc' = [pc EXCEPT ![t] = "gt_lock"]
    /\ op' = [op EXCEPT ![t] = "get_auth_headers"]
    /\ ret' = [ret EXCEPT ![t] = None]
    /\ err' = [err EXCEPT ![t] = "none"]
    /\ didExch' = [didExch EXCEPT ![t] = FALSE]
    /\ obs' = [obs EXCEPT ![t] = <<NotRead, NotRead>>]
    /\ stored' = [stored EXCEPT ![t] = FALSE]
    /\ batch' = FALSE
    /\ UNCHANGED <<env, singletonVars, token, expires_at, lock, tokGen,
                   expGen, expLife, netVars, now, ref, pend, loc>>

\* -------------------------------------------------------- force_refresh()
FrCall(t) ==
    /\ pc[t] = "idle"
    /\ ref[t] # None
    /\ Enter(t, "force_refresh", "fr_lock")
    /\ batch' = FALSE
    /\ UNCHANGED <<env, singletonVars, cacheVars, netVars, now, ref, pend, loc>>

\* Lines 96-97: the lock is acquired and _refresh_token sends the request.
FrEnter(t) ==
    /\ pc[t] = "fr_lock"
    /\ CanAcquire(lock)
    /\ lock' = t
    /\ IF ForceNeedsRefresh(token, expires_at, now)
       THEN /\ StartExchange(t)
            /\ pc' = [pc EXCEPT ![t] = "rf_wait"]
       ELSE /\ pc' = [pc EXCEPT ![t] = "fr_return"]
            /\ UNCHANGED <<netVars, didExch>>
    /\ sample' = [sample EXCEPT !.same =
          @ /\ (SampleForceNeedsRefresh(sample.token, sample.expires_at, now)
                  <=> ForceNeedsRefresh(token, expires_at, now))]
    /\ UNCHANGED <<envVars, singletonVars, token, expires_at, tokGen, expGen, expLife,
                   now, op, ref, ret, err, pend, loc, obs, stored, batch>>

\* The with block is left, the lock released, None returned.
FrReturn(t) ==
    /\ pc[t] = "fr_return"
    /\ Return(t, None)
    /\ lock' = NoThread
    /\ UNCHANGED <<envVars, singletonVars, token, expires_at, tokGen, expGen, expLife,
                   sample,
                   netVars, now, op, ref, err, pend, loc, didExch, obs, stored,
                   batch>>

\* ------------------------------------------------------- is_token_valid()
\* Line 106, first operand: `not self.token`, read without the lock.  A
\* falsy token returns False at once.
IvReadToken(t) ==
    /\ pc[t] = "idle"
    /\ ref[t] # None
    /\ op' = [op EXCEPT ![t] = "is_token_valid"]
    /\ err' = [err EXCEPT ![t] = "none"]
    /\ didExch' = [didExch EXCEPT ![t] = FALSE]
    /\ obs' = [obs EXCEPT ![t] = IF Falsy(token) THEN <<NotRead, NotRead>>
                                  ELSE <<tokGen, NotRead>>]
    /\ stored' = [stored EXCEPT ![t] = FALSE]
    /\ rg' = [rg EXCEPT ![t] = NoGroup]
    /\ batch' = FALSE
    /\ IF Falsy(token)
       THEN Return(t, PyBool(FALSE))
       ELSE /\ pc' = [pc EXCEPT ![t] = "iv_exp"]
            /\ ret' = [ret EXCEPT ![t] = None]
    /\ UNCHANGED <<env, singletonVars, cacheVars, netVars, now, ref, pend, loc>>

\* Line 106, second operand: `not self.expires_at`, read without the lock.
IvReadExpiry(t) ==
    /\ pc[t] = "iv_exp"
    /\ obs' = [obs EXCEPT ![t] = IF FalsyDatetime(expires_at)
                                  THEN <<NotRead, NotRead>>
                                  ELSE <<obs[t][1], expGen>>]
    /\ IF FalsyDatetime(expires_at)
       THEN Return(t, PyBool(FALSE))
       ELSE /\ pc' = [pc EXCEPT ![t] = "iv_now"]
            /\ UNCHANGED ret
    /\ UNCHANGED <<envVars, singletonVars, cacheVars, netVars, now, op, ref, err,
                   pend, loc, didExch, stored, batch>>

\* Line 108, left operand: datetime.now() is called.
IvReadClock(t) ==
    /\ pc[t] = "iv_now"
    /\ loc' = [loc EXCEPT ![t].clock = now]
    /\ pc' = [pc EXCEPT ![t] = "iv_cmp"]
    /\ UNCHANGED <<envVars, singletonVars, cacheVars, netVars, now, op, ref,
                   ret, err, pend, didExch, obs, stored, batch>>

\* Line 108, right operand and return: self.expires_at is read again,
\* without the lock, and compared with the clock value read before.
IvCompare(t) ==
    /\ pc[t] = "iv_cmp"
    /\ obs' = [obs EXCEPT ![t] = <<NotRead, NotRead>>]
    /\ loc' = [loc EXCEPT ![t].clock = NotRead]
    /\ Return(t, PyBool(IvNotExpired(loc[t].clock, expires_at)))
    /\ UNCHANGED <<envVars, singletonVars, cacheVars, netVars, now, op, ref, err,
                   pend, didExch, stored, batch>>

\* ---------------------------------------------------------- specification
Next ==
    \/ Tick
    \/ SetGroup
    \/ \E t \in Threads : GmFirstCheck(t)
    \/ \E t \in Threads : GmLock(t)
    \/ \E t \in Threads : GmRecheck(t)
    \/ \E t \in Threads : GmReturn(t)
    \/ \E t \in Threads : GtCall(t)
    \/ \E t \in Threads : GtEnter(t)
    \/ \E t \in Threads : GtReturn(t)
    \/ \E t \in Threads : ChatRequest(t)
    \/ \E t \in Threads : AhCall(t)
    \/ \E t \in Threads : AhReturn(t)
    \/ \E t \in Threads : FrCall(t)
    \/ \E t \in Threads : FrEnter(t)
    \/ \E t \in Threads : FrReturn(t)
    \/ \E t \in Threads : RfFail(t)
    \/ \E t \in Threads : RfStoreToken(t)
    \/ \E t \in Threads : RfReadClock(t)
    \/ \E t \in Threads : RfStoreExpiry(t)
    \/ \E t \in Threads : IvReadToken(t)
    \/ \E t \in Threads : IvReadExpiry(t)
    \/ \E t \in Threads : IvReadClock(t)
    \/ \E t \in Threads : IvCompare(t)

Spec == Init /\ [][Next]_vars

\* -------------------------------------------------------------- scheduling
\* A call on the cache is in progress: the thread waits for self.lock or
\* holds it.
InCacheCall(t) ==
    pc[t] \in {"gt_lock", "fr_lock", "rf_wait", "rf_expiry", "rf_store",
               "gt_return", "ah_return", "fr_return"}

\* What the runtime guarantees to a thread inside a call on the cache.
\*   - threading.Lock granted fairly: a waiter for which the lock is free
\*     again and again gets it (strong fairness on the acquisitions);
\*   - requests.post(..., timeout=30): the exchange ends, with a response or
\*     with an exception (weak fairness on its two ends);
\*   - a running thread goes on running (weak fairness on the straight-line
\*     steps that follow).
\* Each of these steps moves the thread's pc, so fairness is stated on pc.
\* A thread is at one program point at a time, so of the steps grouped
\* under one condition at most one is enabled for it, and fairness for the
\* group is fairness for each step of it.
Fairness ==
    \A t \in Threads :
        /\ SF_pc(GtEnter(t) \/ FrEnter(t))
        /\ WF_pc(\/ RfFail(t) \/ RfStoreToken(t)
                 \/ RfReadClock(t) \/ RfStoreExpiry(t)
                 \/ AhReturn(t) \/ GtReturn(t) \/ FrReturn(t))

\* The program once every thread holds the manager: get_token_manager
\* constructed it from a complete environment e and returned it to each.
ConstructedWith(e) ==
    /\ env = e
    /\ instance = Some(1)
    /\ ilock = NoThread
    /\ nconstruct = 1
    /\ token = None
    /\ expires_at = None
    /\ lock = NoThread
    /\ now = 0
    /\ exch = 0
    /\ inflight = 0
    /\ tokGen = 0
    /\ expGen = 0
    /\ expLife = 0
    /\ pc = [t \in Threads |-> "idle"]
    /\ op = [t \in Threads |-> "get_token_manager"]
    /\ ref = [t \in Threads |-> Some(1)]
    /\ ret = [t \in Threads |-> PyObj(Some(1))]
    /\ err = [t \in Threads |-> "none"]
    /\ pend = [t \in Threads |-> NoPend]
    /\ didExch = [t \in Threads |-> FALSE]
    /\ obs = [t \in Threads |-> <<NotRead, NotRead>>]
    /\ stored = [t \in Threads |-> FALSE]
    /\ batch = FALSE
    /\ rg = [t \in Threads |-> NoGroup]
    /\ loc = [t \in Threads |-> NoLocals]
    /\ sample = NoSample

\* Complete environments with AICORE_RESOURCE_GROUP of G and a sys.stdout
\* of S; the URL is usable, has no scheme or has no host, the client
\* secret is plain or has a character outside Latin-1.
CompleteEnvs(G, S) ==
    [auth_url : {Some("v"), NoScheme, NoHost}, client_id : {Some("v")},
     client_secret : {Some("v"), NonLatin1},
     resource_group : G, stdout : S]

\* The calls that take self.lock: get_token, get_auth_headers and
\* force_refresh with the refresh inside them.
LockedCalls ==
    \/ \E t \in Threads : GtCall(t)
    \/ \E t \in Threads : AhCall(t)
    \/ \E t \in Threads : AhReturn(t)
    \/ \E t \in Threads : FrCall(t)
    \/ \E t \in Threads : GtEnter(t)
    \/ \E t \in Threads : FrEnter(t)
    \/ \E t \in Threads : RfFail(t)
    \/ \E t \in Threads : RfStoreToken(t)
    \/ \E t \in Threads : RfReadClock(t)
    \/ \E t \in Threads : RfStoreExpiry(t)
    \/ \E t \in Threads : GtReturn(t)
    \/ \E t \in Threads : FrReturn(t)

\* _refresh_token, as get_token and force_refresh run it under the lock.
RefreshSteps ==
    \/ \E t \in Threads : RfFail(t)
    \/ \E t \in Threads : RfStoreToken(t)
    \/ \E t \in Threads : RfReadClock(t)
    \/ \E t \in Threads : RfStoreExpiry(t)

\* get_token and force_refresh with the refresh inside them.
TokenCalls ==
    \/ \E t \in Threads : GtCall(t)
    \/ \E t \in Threads : GtEnter(t)
    \/ \E t \in Threads : GtReturn(t)
    \/ \E t \in Threads : FrCall(t)
    \/ \E t \in Threads : FrEnter(t)
    \/ \E t \in Threads : FrReturn(t)
    \/ RefreshSteps

\* The manager constructed with AICORE_RESOURCE_GROUP unset and a
\* strict sys.stdout that encodes every character.
CacheInit ==
    \E e \in CompleteEnvs({None}, {Utf8Strict}) : ConstructedWith(e)

\* The cache in use: get_token and force_refresh, the model requests of
\* their callers, and the clock.
CacheNext ==
    \/ Tick
    \/ TokenCalls
    \/ \E t \in Threads : ChatRequest(t)

CacheSpec == CacheInit /\ [][CacheNext]_vars

\* is_token_valid, which takes no lock, beside get_token and
\* force_refresh, and the clock.
ValidityNext ==
    \/ Tick
    \/ TokenCalls
    \/ \E t \in Threads : IvReadToken(t)
    \/ \E t \in Threads : IvReadExpiry(t)
    \/ \E t \in Threads : IvReadClock(t)
    \/ \E t \in Threads : IvCompare(t)

ValiditySpec == CacheInit /\ [][ValidityNext]_vars

\* get_auth_headers, with the get_token call and the refresh inside it,
\* and the clock.
HeaderClockNext ==
    \/ Tick
    \/ \E t \in Threads : AhCall(t)
    \/ \E t \in Threads : GtEnter(t)
    \/ \E t \in Threads : GtReturn(t)
    \/ \E t \in Threads : AhReturn(t)
    \/ RefreshSteps

HeaderClockSpec == CacheInit /\ [][HeaderClockNext]_vars

\* Termination: no step of a call waits for the clock, so the fair
\* specification lets the calls run at one clock value; the staleness
\* test still goes both ways (expires_in 300 and 301).
FairSpec == CacheInit /\ [][LockedCalls]_vars /\ Fairness

\* The two managers side by side in get_token and force_refresh, on a
\* sys.stdout of either encoding and either error handler (UTF-8 as the C
\* locale sets it up, ASCII as PYTHONIOENCODING=ascii does).
SampleInit ==
    \E e \in CompleteEnvs({None}, {Utf8Escape, AsciiStrict}) :
        ConstructedWith(e)

SampleSpec == SampleInit /\ [][Tick \/ TokenCalls]_vars

\* get_auth_headers while AICORE_RESOURCE_GROUP is set and unset and
\* force_refresh replaces the token, at one clock value.
HeaderInit ==
    \E e \in CompleteEnvs(GroupValues, {Utf8Strict}) : ConstructedWith(e)

HeaderNext ==
    \/ SetGroup
    \/ \E t \in Threads : AhCall(t)
    \/ \E t \in Threads : AhReturn(t)
    \/ \E t \in Threads : FrCall(t)
    \/ \E t \in Threads : GtEnter(t)
    \/ \E t \in Threads : FrEnter(t)
    \/ \E t \in Threads : RfFail(t)
    \/ \E t \in Threads : RfStoreToken(t)
    \/ \E t \in Threads : RfReadClock(t)
    \/ \E t \in Threads : RfStoreExpiry(t)
    \/ \E t \in Threads : GtReturn(t)
    \/ \E t \in Threads : FrReturn(t)

HeaderSpec == HeaderInit /\ [][HeaderNext]_vars

\* get_token_manager alone, in every environment.
SingletonNext ==
    \/ \E t \in Threads : GmFirstCheck(t)
    \/ \E t \in Threads : GmLock(t)
    \/ \E t \in Threads : GmRecheck(t)
    \/ \E t \in Threads : GmReturn(t)

SingletonSpec == Init /\ [][SingletonNext]_vars

\* ================================================================= claims
\* The check-and-refresh sequence: from the lock acquired to its release.
InCritical(t) ==
    pc[t] \in {"rf_wait", "rf_expiry", "rf_store", "gt_return", "fr_return"}

Exchangers == {t \in Threads : didExch[t]}

\* The last call of thread t made an exchange that failed: it raised before
\* any token was taken from a response.
ExchangeFailed(t) ==
    /\ pc[t] = "idle"
    /\ didExch[t]
    /\ err[t] \in FailureKinds
    /\ ~stored[t]

\* No token is cached, as the code tests it (`not self.token`): self.token
\* is None or a falsy value a response carried as its access_token.
NoTokenCached == Falsy(token)

\* A token is cached and the clock reads before its expiry.
CachedAndUnexpired ==
    /\ ~Falsy(token)
    /\ expires_at # None
    /\ now < Val(expires_at)

\* C1: at every moment at most one thread is inside the check-and-refresh
\* sequence of get_token or force_refresh and it holds the lock, so at most
\* one exchange is in flight; the exchanges in flight are those of threads
\* inside the sequence, and a caller that arrived meanwhile is waiting for
\* the lock.
C1_OneRefreshAtATime ==
    /\ Cardinality({t \in Threads : InCritical(t)}) <= 1
    /\ inflight <= 1
    /\ inflight = Cardinality({t \in Threads : pc[t] = "rf_wait"})
    /\ \A t \in Threads : InCritical(t) => lock = t
    /\ inflight > 0 => ~CanAcquire(lock)

\* C1 witness: an exchange is in flight while another caller has arrived
\* and waits for the lock.
C1_Witness ==
    \E t, u \in Threads :
        /\ t # u
        /\ pc[t] = "rf_wait"
        /\ inflight = 1
        /\ pc[u] \in {"gt_lock", "fr_lock"}

\* All threads called get_token together on a stale cache and all of these
\* calls have ended.
BatchDone == batch /\ \A t \in Threads : pc[t] = "idle"

\* C2 as stated: N concurrent get_token callers on an empty or expired
\* cache cause exactly one exchange and all receive the same token (read
\* for the runs in which every caller does receive a token, a truthy
\* value).
C2_Original ==
    (BatchDone /\ \A t \in Threads : err[t] = "none" /\ ~Falsy(ret[t])) =>
        /\ Cardinality(Exchangers) = 1
        /\ \A t, u \in Threads : ret[t] = ret[u]

\* Thread u has ended its call with an exchange that succeeded.
Refreshed(u) == pc[u] = "idle" /\ didExch[u] /\ err[u] = "none"

\* C2 amended: of N callers that called get_token together on an empty or
\* expired cache, one that gets the lock after the exchange of another has
\* succeeded makes no exchange of its own exactly when it finds the stored
\* token non-empty and the clock before its expiry, and then it receives
\* the token the other received; otherwise it makes an exchange of its
\* own.
C2_OneExchangeWhenGood ==
    [][\A t \in Threads :
          /\ (/\ batch
              /\ pc[t] = "gt_lock" /\ pc'[t] # "gt_lock"
              /\ \E u \in Threads \ {t} : Refreshed(u)) =>
                IF CachedAndUnexpired
                THEN /\ pc'[t] = "gt_return"
                     /\ exch' = exch
                     /\ ~didExch'[t]
                ELSE /\ pc'[t] = "rf_wait"
                     /\ exch' = exch + 1
                     /\ didExch'[t]
          /\ (/\ batch
              /\ pc[t] = "gt_return" /\ pc'[t] = "idle"
              /\ ~didExch[t]) =>
                \A u \in Threads \ {t} :
                    Refreshed(u) => ret'[t] = ret[u] /\ ret'[t] = token
      ]_vars

\* C2 witness: the callers of a batch have returned after one exchange, both
\* with the token it stored.
C2_Witness ==
    \E t, u \in Threads :
        /\ BatchDone
        /\ Refreshed(u)
        /\ pc[t] = "idle" /\ ~didExch[t] /\ err[t] = "none"
        /\ ret[t] = Some(JStr("T1"))
        /\ ret[u] = ret[t]
        /\ exch = 1

\* C3 as stated: get_token never returns an expired token: whenever
\* get_token is about to hand out a token (a truthy value of self.token),
\* the clock reads before its expiry (now < expires_at).
C3_Original ==
    \A t \in Threads :
        (pc[t] = "gt_return" /\ ~Falsy(token)) =>
            expires_at # None /\ now < Val(expires_at)

\* C4: when the exchange made by get_token or force_refresh fails
\* (transport error, non-success status, body without access_token), token
\* and expires_at are what they were, the lock is released, and a cached
\* token that is still valid is what a get_token entering then returns,
\* with no exchange.
C4_FailureLeavesCredential ==
    [][\A t \in Threads :
          (pc[t] = "rf_wait" /\ pc'[t] = "idle") =>
             /\ err'[t] \in FailureKinds
             /\ <<token', expires_at'>> = <<token, expires_at>>
             /\ lock' = NoThread
             /\ \A u \in Threads :
                   (pc'[u] = "gt_lock" /\ IsTokenValid(token, expires_at, now))
                     => ~NeedsRefresh(token', expires_at', now')
      ]_vars

\* C4 witness: a force_refresh failed, and a get_token that entered after
\* it is returning the still cached token without an exchange.
C4_Witness ==
    \E t, u \in Threads :
        /\ op[t] = "force_refresh"
        /\ ExchangeFailed(t)
        /\ pc[u] = "gt_return"
        /\ ~didExch[u]
        /\ exch = 2
        /\ tokGen = 1
        /\ IsTokenValid(token, expires_at, now)

\* C5 as stated: in every reachable state, also in the middle of a refresh
\* and after a refresh that raised, token and expires_at are both absent
\* or both present.
C5_TokenAndExpiryTogether ==
    (token = None) <=> (expires_at = None)

\* C6 as stated: an is_token_valid call running concurrently with a refresh
\* reads token and expires_at of the same published pair (written by the
\* same exchange, or both from before any exchange).
C6_AtomicPairObserved ==
    \A t \in Threads :
        (obs[t][1] # NotRead /\ obs[t][2] # NotRead) => obs[t][1] = obs[t][2]

\* An is_token_valid call of thread t returns in this step.
IvReturns(t) ==
    /\ pc'[t] = "idle"
    /\ \/ pc[t] \in {"iv_exp", "iv_cmp"}
       \/ pc[t] = "idle" /\ IvReadToken(t)

\* C7: is_token_valid returns true if and only if a token is cached and
\* now < expires_at.  It returns False when it reads a falsy token or no
\* expiry, and the cache is then not valid; otherwise it returns whether
\* the clock value it read is before expires_at, which is the validity of
\* the cache at the return whenever the clock still shows that value and
\* the token is the one it read.  Before any refresh has stored a token and
\* an expiry (so also right after a failed refresh with no prior token) it
\* returns False.
C7_IsValidIffCachedAndUnexpired ==
    [][\A t \in Threads :
          IvReturns(t) =>
             /\ pc[t] = "idle" =>
                   /\ ret'[t] = PyBool(FALSE)
                   /\ ~IsTokenValid(token, expires_at, now)
             /\ pc[t] = "iv_exp" =>
                   /\ ret'[t] = PyBool(FALSE)
                   /\ ~IsTokenValid(token, expires_at, now)
             /\ pc[t] = "iv_cmp" =>
                   /\ expires_at # None
                   /\ loc[t].clock # NotRead
                   /\ ret'[t] = PyBool(loc[t].clock < Val(expires_at))
                   /\ (loc[t].clock = now /\ obs[t][1] = tokGen) =>
                         ret'[t] =
                            PyBool(IsTokenValid(token, expires_at, now))
             /\ (tokGen = 0 \/ expGen = 0) => ret'[t] = PyBool(FALSE)
      ]_vars

\* C7 witness: is_token_valid is about to return true: a token is cached,
\* and the clock, which still shows the value the call read, is before
\* the cached expiry.
C7_Witness ==
    \E t \in Threads :
        /\ op[t] = "is_token_valid"
        /\ pc[t] = "iv_cmp"
        /\ token = Some(JStr("T1"))
        /\ obs[t][1] = tokGen
        /\ loc[t].clock = now
        /\ now < Val(expires_at)

\* C8: concurrent first calls of get_token_manager all return the one
\* instance, and exactly one construction (with its validation of the
\* settings) has taken place when there is an instance.
C8_SingletonUnique ==
    /\ \A t \in Threads : ref[t] # None => ref[t] = instance
    /\ \A t \in Threads : pc[t] = "gm_return" => instance # None
    /\ instance # None => nconstruct = 1

\* C8 witness: one caller has the instance while another, which saw no
\* instance at its unguarded check, has the lock and is at the second check.
C8_Witness ==
    \E t, u \in Threads :
        /\ t # u
        /\ ref[t] # None
        /\ pc[u] = "gm_recheck"
        /\ instance # None

Settings == {"auth_url", "client_id", "client_secret"}

\* One of the three settings is missing (unset) or blank (empty).
MissingOrBlank == \E k \in Settings : env[k] = None \/ env[k] = Some("")

\* C9: constructing with one of endpoint, client identifier, client secret
\* missing or blank raises at construction, with no request sent and no
\* instance produced; with all three present it succeeds and token and
\* expires_at are absent.
C9_ConstructionFailsFast ==
    [][\A t \in Threads :
          (pc[t] = "gm_recheck" /\ nconstruct' = nconstruct + 1) =>
             IF MissingOrBlank
             THEN /\ err'[t] = "ValueError"
                  /\ pc'[t] = "idle"
                  /\ ret'[t] = None
                  /\ instance' = None
                  /\ exch' = 0
                  /\ \A u \in Threads : ref'[u] = None
             ELSE /\ err'[t] = "none"
                  /\ instance' # None
                  /\ token' = None
                  /\ expires_at' = None
                  /\ exch' = 0
      ]_vars

\* C9 witness: with a blank endpoint and the other settings present, a
\* construction was attempted and raised.
C9_Witness ==
    /\ env.auth_url = Some("")
    /\ env.client_id = Some("v")
    /\ env.client_secret = Some("v")
    /\ nconstruct > 0
    /\ \E t \in Threads : err[t] = "ValueError" /\ pc[t] = "idle"

\* C10 as stated: after a successful force_refresh is_token_valid() is
\* true (read for the exchanges that stored a token, a truthy value).
C10_Original ==
    \A t \in Threads :
        (pc[t] = "fr_return" /\ ~Falsy(token)) =>
            /\ didExch[t]
            /\ IsTokenValid(token, expires_at, now)

\* C10 amended: force_refresh makes one exchange whether or not the cached
\* token is still valid; on success token and expires_at are the ones this
\* exchange stored, the token being whatever the response carried and the
\* expiry the clock value read at line 67 + lifetime - 300, so
\* is_token_valid() is true afterwards only for a truthy token and a clock
\* that reads before that expiry: it is false for a lifetime of 300 s or
\* less unless the clock was set back.
C10_ForceRefreshOverwrites ==
    [][\A t \in Threads :
          /\ (pc[t] = "fr_lock" /\ pc'[t] # "fr_lock") =>
                /\ pc'[t] = "rf_wait"
                /\ exch' = exch + 1
                /\ didExch'[t]
          /\ (op[t] = "force_refresh" /\ pc[t] = "rf_wait"
                 /\ pc'[t] = "rf_expiry") =>
                /\ stored'[t]
                /\ tokGen' = exch
          /\ (op[t] = "force_refresh" /\ pc[t] = "rf_store"
                 /\ pc'[t] # "rf_store" /\ err'[t] = "none") =>
                /\ pc'[t] = "fr_return"
                /\ token' = token
                /\ tokGen' = exch /\ expGen' = exch
                /\ expires_at' =
                      Some(loc[t].clock + ExpiresIn(pend[t]) - SafetyMargin)
                /\ IsTokenValid(token', expires_at', now') <=>
                      /\ ~Falsy(token)
                      /\ now < loc[t].clock + ExpiresIn(pend[t])
                                  - SafetyMargin
                /\ (ExpiresIn(pend[t]) <= SafetyMargin
                       /\ now >= loc[t].clock) =>
                      ~IsTokenValid(token', expires_at', now')
          /\ (pc[t] = "fr_return" /\ pc'[t] # "fr_return") =>
                /\ pc'[t] = "idle"
                /\ didExch[t] /\ stored[t]
                /\ tokGen = exch /\ expGen = exch
                /\ err'[t] = "none"
                /\ lock' = NoThread
      ]_vars

\* C10 witness: a force_refresh has made its exchange and has overwritten
\* the token of a credential whose expiry is still in the future.
C10_Witness ==
    \E t \in Threads :
        /\ pc[t] = "rf_expiry"
        /\ op[t] = "force_refresh"
        /\ didExch[t]
        /\ expGen < tokGen
        /\ expires_at # None
        /\ now < Val(expires_at)

\* C11: get_token, at the moment it holds the lock, starts an exchange if
\* and only if no token is cached (`not self.token`: None, or a falsy value
\* a response carried), or no expiry is known, or now >= expires_at; otherwise it goes on to return the cached
\* token, with no new exchange and with token and expires_at as they were.
C11_RefreshIffStale ==
    [][\A t \in Threads :
          /\ (pc[t] = "gt_lock" /\ pc'[t] # "gt_lock") =>
                /\ lock' = t
                /\ IF \/ Falsy(token)
                      \/ expires_at = None
                      \/ now >= Val(expires_at)
                   THEN /\ pc'[t] = "rf_wait"
                        /\ exch' = exch + 1
                        /\ inflight' = inflight + 1
                   ELSE /\ pc'[t] = "gt_return"
                        /\ exch' = exch
                        /\ inflight' = inflight
                        /\ <<token', expires_at'>> = <<token, expires_at>>
          /\ (pc[t] = "gt_return" /\ pc'[t] # "gt_return" /\ ~didExch[t]) =>
                /\ op[t] = "get_token" => ret'[t] = token
                /\ op[t] = "get_auth_headers" => loc'[t].tok = token
                /\ exch' = exch
                /\ <<token', expires_at'>> = <<token, expires_at>>
      ]_vars

\* C11 witness: a second get_token found the token of an earlier exchange
\* still unexpired and is returning it without an exchange of its own.
C11_Witness ==
    \E t \in Threads :
        /\ pc[t] = "gt_return"
        /\ op[t] = "get_token"
        /\ ~didExch[t]
        /\ exch = 1
        /\ token = Some(JStr("T1"))
        /\ now < Val(expires_at)

\* C12: when a refresh has stored the expiry for a response reporting
\* lifetime L, expires_at is the issue time (the clock value the refresh
\* read at line 67) + L - 300, with L = 3600 when
\* the response has no expires_in; for L < 300 this is before the issue
\* time (no clamping).
C12_ExpiryIsIssuePlusLifetimeMinusMargin ==
    [][\A t \in Threads :
          (pc[t] = "rf_store" /\ pc'[t] \in {"gt_return", "fr_return"}) =>
             /\ loc[t].clock # NotRead
             /\ pend[t].kind = "absent" =>
                   expires_at' = Some(loc[t].clock + 3600 - 300)
             /\ pend[t].kind = "int" =>
                   /\ expires_at' = Some(loc[t].clock + pend[t].v - 300)
                   /\ pend[t].v < 300 => Val(expires_at') < loc[t].clock
             /\ token' = token
      ]_vars

\* C12 witness: a refresh that read the clock at 1 stored the expiry for a
\* response reporting 299 seconds: one second before the issue time.
C12_Witness ==
    \E t \in Threads :
        /\ pc[t] \in {"gt_return", "fr_return"}
        /\ didExch[t]
        /\ expLife = 299
        /\ expires_at = Some(0)

\* C13 as stated: the mapping get_auth_headers is about to return carries
\* the token get_token() would return at that instant, which is the cached
\* one while the cache is valid.
C13_Original ==
    \A t \in Threads :
        (pc[t] = "ah_return" /\ IsTokenValid(token, expires_at, now)) =>
            loc[t].tok = token

\* C13 amended: the mapping get_auth_headers returns has Authorization
\* 'Bearer ' followed by the value its own get_token() call returned (the
\* cached one at the moment that call released the lock; the text 'None'
\* for None), Content-Type application/json, and AI-Resource-Group equal
\* to the argument when one was given and else to the configured default
\* (AICORE_RESOURCE_GROUP as the call found it, or 'default' when unset).
C13_HeaderComposition ==
    [][\A t \in Threads :
        /\ (pc[t] = "idle" /\ pc'[t] = "gt_lock"
               /\ op'[t] = "get_auth_headers") =>
              rg'[t].resolved =
                 IF rg'[t].given # None THEN rg'[t].given
                 ELSE IF env.resource_group # None THEN env.resource_group
                      ELSE Some("default")
        /\ (pc[t] = "gt_return" /\ op[t] = "get_auth_headers"
               /\ pc'[t] # "gt_return") =>
             /\ pc'[t] = "ah_return"
             /\ lock = t
             /\ loc'[t].tok = token
        /\ (pc[t] = "ah_return" /\ pc'[t] # "ah_return") =>
             /\ pc'[t] = "idle"
             /\ op[t] = "get_auth_headers"
             /\ ret'[t] # None
             /\ Val(ret'[t]).dict.Authorization[1] = "Bearer "
             /\ Val(ret'[t]).dict.Authorization[2] =
                   IF loc[t].tok = None THEN "None"
                   ELSE IF IsStr(Val(loc[t].tok)) THEN Val(loc[t].tok).str
                   ELSE IF IsInt(Val(loc[t].tok))
                        THEN ToString(Val(loc[t].tok).int)
                   ELSE IF IsBool(Val(loc[t].tok))
                        THEN (IF Val(loc[t].tok).bool THEN "True"
                                                      ELSE "False")
                   ELSE IF IsList(Val(loc[t].tok)) THEN "[]"
                   ELSE "{}"
             /\ Val(ret'[t]).dict.ContentType = "application/json"
             /\ Val(ret'[t]).dict.AIResourceGroup = Val(rg[t].resolved)
             /\ rg[t].given # None => rg[t].resolved = rg[t].given
             /\ rg[t].given = None =>
                   rg[t].resolved \in {Some("default")} \cup (GroupValues \ {None})
             /\ err'[t] = "none"
      ]_vars

\* C13 witness: a caller is about to get headers for the group it named,
\* carrying the token of the first exchange, which its get_token() call
\* returned; a force_refresh by the other thread has since completed and
\* the cache holds the token of the second exchange, unexpired.
C13_Witness ==
    \E t, u \in Threads :
        /\ pc[t] = "ah_return" /\ op[t] = "get_auth_headers"
        /\ loc[t].tok = Some(JStr("T1"))
        /\ rg[t].resolved = Some("rgA")
        /\ op[u] = "force_refresh" /\ pc[u] = "idle" /\ err[u] = "none"
        /\ token = Some(JStr("T2"))
        /\ IsTokenValid(token, expires_at, now)

\* C14 as stated: every failure of the exchange (network error, non-success
\* status, body without access_token) is raised from the call that made
\* the exchange, none is swallowed, and all are of one error kind (the one
\* _refresh_token handles, RequestException).
C14_OneErrorKind ==
    \A t \in Threads :
        /\ (pc[t] = "idle" /\ didExch[t] /\ ~stored[t]) => err[t] # "none"
        /\ (pc[t] = "idle" /\ err[t] \in FailureKinds) =>
              ErrorClass(err[t]) = "RequestException"

\* Thread t takes a step of is_token_valid.
IvStep(t) ==
    \/ pc[t] = "idle" /\ IvReadToken(t)
    \/ pc[t] \in {"iv_exp", "iv_now", "iv_cmp"} /\ pc'[t] # pc[t]

\* C15: no step of is_token_valid starts an exchange or changes token,
\* expires_at or the lock, whatever the cache holds; token and expires_at
\* change only in the two assignments of the refresh step, which a thread
\* reaches through get_token (called directly or by get_auth_headers) or
\* force_refresh after it sent the request under the lock.
C15_IsValidIsReadOnly ==
    [][/\ \A t \in Threads :
             IvStep(t) =>
                /\ <<token', expires_at', lock'>> = <<token, expires_at, lock>>
                /\ <<exch', inflight'>> = <<exch, inflight>>
                /\ op'[t] = "is_token_valid"
       /\ token' # token =>
             \E t \in Threads :
                /\ pc[t] = "rf_wait" /\ pc'[t] = "rf_expiry"
                /\ lock = t
                /\ op[t] \in {"get_token", "get_auth_headers", "force_refresh"}
       /\ expires_at' # expires_at =>
             \E t \in Threads :
                /\ pc[t] = "rf_store" /\ pc'[t] \in {"gt_return", "fr_return"}
                /\ lock = t
                /\ op[t] \in {"get_token", "get_auth_headers", "force_refresh"}
       /\ exch' # exch =>
             \E t \in Threads :
                /\ pc[t] \in {"gt_lock", "fr_lock"} /\ pc'[t] = "rf_wait"
                /\ op[t] \in {"get_token", "get_auth_headers", "force_refresh"}
      ]_vars

\* C15 witness: is_token_valid answered False on a cache holding an expired
\* token, and the cache is as it was: nothing in flight, the lock free, the
\* one exchange made so far being the one that stored the token.
C15_Witness ==
    \E t \in Threads :
        /\ pc[t] = "idle"
        /\ op[t] = "is_token_valid"
        /\ ret[t] = PyBool(FALSE)
        /\ token = Some(JStr("T1"))
        /\ expires_at # None
        /\ now >= Val(expires_at)
        /\ exch = 1
        /\ inflight = 0
        /\ lock = NoThread

\* C16: the singleton handle changes only from None to an instance, under
\* _instance_lock, so at most once; from then on it stays that instance,
\* every get_token_manager call that starts takes the path without the
\* lock, and every call that returns hands out that instance.
C16_SingletonStaysPublished ==
    [][/\ instance # None => instance' = instance
       /\ instance' # instance =>
             /\ instance = None
             /\ \E t \in Threads : pc[t] = "gm_recheck" /\ ilock = t
       /\ \A t \in Threads :
             /\ (pc[t] = "gm_return" /\ pc'[t] = "idle") =>
                   /\ instance # None
                   /\ ret'[t] = PyObj(instance)
                   /\ ref'[t] = instance
             /\ (pc[t] = "idle" /\ op'[t] = "get_token_manager"
                    /\ pc'[t] # "idle" /\ instance # None) =>
                   pc'[t] = "gm_return" /\ ilock' = ilock
             /\ ref[t] # None => ref'[t] = ref[t]
      ]_vars

\* C16 witness: a thread that already holds the instance called
\* get_token_manager again, took the path without the lock and is about to
\* return from it.
C16_Witness ==
    \E t \in Threads :
        /\ pc[t] = "gm_return"
        /\ ref[t] # None
        /\ ref[t] = instance
        /\ ilock = NoThread

\* C17: a call of get_token or force_refresh sends at most one request: a
\* request is sent only by a call arriving from its lock acquisition that
\* has sent none yet, one request at a time; a call whose exchange fails
\* ends there, with the error raised to its caller and no further request.
C17_NoRetry ==
    [][/\ exch' # exch =>
             /\ exch' = exch + 1
             /\ \E t \in Threads :
                   /\ pc[t] \in {"gt_lock", "fr_lock"}
                   /\ pc'[t] = "rf_wait"
                   /\ ~didExch[t] /\ didExch'[t]
       /\ \A t \in Threads :
             /\ pc'[t] = "rf_wait" /\ pc[t] # "rf_wait" =>
                   pc[t] \in {"gt_lock", "fr_lock"}
             /\ (pc[t] \in {"rf_wait", "rf_expiry", "rf_store"}
                    /\ err'[t] # "none") =>
                   /\ pc'[t] = "idle"
                   /\ exch' = exch
                   /\ inflight' = 0
                   /\ ret'[t] = None
             /\ (didExch[t] /\ pc[t] # "idle") => didExch'[t]
      ]_vars

\* C17 witness: the first call made its one exchange, the exchange failed,
\* and the call has ended with the error: one request was sent in all.
C17_Witness ==
    \E t \in Threads :
        /\ op[t] \in {"get_token", "force_refresh"}
        /\ ExchangeFailed(t)
        /\ exch = 1
        /\ inflight = 0
        /\ token = None

\* The cached credential was stored whole by one refresh, from a response
\* reporting a lifetime below the safety margin.
ShortLivedCached ==
    /\ expGen > 0
    /\ tokGen = expGen
    /\ expLife < SafetyMargin

\* The clock value that refresh read: expires_at is that value + lifetime
\* - 300.
IssueTime == Val(expires_at) + SafetyMargin - expLife

\* C18 as stated: the very next get_token() on a token issued with a
\* lifetime below 300 seconds performs a new exchange: no get_token call
\* is about to return such a credential without an exchange of its own.
C18_Original ==
    \A t \in Threads :
        (pc[t] = "gt_return" /\ ~didExch[t]) => ~ShortLivedCached

\* C18 amended: a refresh whose response reports a lifetime below 300
\* seconds stores an expires_at before the issue time and ends without an
\* error; the next get_token that takes the lock on this credential sends
\* a new request when the clock reads the issue time or later, and
\* returns the credential without a request only when the clock has been
\* set back to before that expires_at.
C18_ShortLifetimeRefreshesNext ==
    [][\A t \in Threads :
          /\ (pc[t] = "rf_store" /\ pc'[t] # "rf_store"
                 /\ pend[t].kind = "int" /\ pend[t].v < 300) =>
                /\ Val(expires_at') < loc[t].clock
                /\ err'[t] = "none"
                /\ pc'[t] \in {"gt_return", "fr_return"}
                /\ ShortLivedCached'
                /\ IssueTime' = loc[t].clock
          /\ (pc[t] = "gt_lock" /\ pc'[t] # "gt_lock"
                 /\ ShortLivedCached /\ now >= IssueTime) =>
                /\ Val(expires_at) < now
                /\ pc'[t] = "rf_wait"
                /\ exch' = exch + 1
          /\ (pc[t] = "gt_lock" /\ pc'[t] = "gt_return"
                 /\ ShortLivedCached) =>
                /\ now < Val(expires_at)
                /\ now < IssueTime
      ]_vars

\* C18 witness: a get_token returned, without error, a token reported to
\* live 299 seconds, and the next get_token has sent a request of its own
\* while that token is still the cached one.
C18_Witness ==
    \E t, u \in Threads :
        /\ t # u
        /\ pc[u] = "idle" /\ op[u] = "get_token"
        /\ err[u] = "none" /\ ret[u] = token
        /\ token = Some(JStr("T1"))
        /\ ShortLivedCached
        /\ expLife = 299
        /\ pc[t] = "rf_wait" /\ op[t] = "get_token"
        /\ exch = 2

\* C19 as stated: a refresh replaces token and expires_at together or
\* changes neither, whatever the response: whenever no call is inside the
\* check-and-refresh sequence, token and expires_at were written by the
\* same exchange (or neither was ever written).
C19_RefreshAllOrNothing ==
    lock = NoThread => tokGen = expGen

\* C20: the lock is held only by a call inside the check-and-refresh
\* sequence of get_token or force_refresh; when that call ends, by return
\* (to the caller, or to get_auth_headers which goes on without the lock)
\* or by an exception (a failed exchange too), the lock is free and a
\* caller arriving or waiting can acquire it.
C20_LockReleasedOnEveryExit ==
    [][\A t \in Threads :
          /\ lock = t => InCritical(t)
          /\ lock' = t => InCritical(t)'
          /\ (InCritical(t) /\ ~InCritical(t)') =>
                /\ pc'[t] = IF op[t] = "get_auth_headers" /\ err'[t] = "none"
                            THEN "ah_return" ELSE "idle"
                /\ lock' = NoThread
                /\ CanAcquire(lock')
                /\ err'[t] # "none" \/ pc[t] \in {"gt_return", "fr_return"}
          /\ pc[t] \in {"idle", "ah_return"} => lock # t
      ]_vars

\* C20 witness: two callers arrived together on an empty cache; the
\* exchange of the first failed and it raised; the one that was waiting has
\* since taken the lock and sent its own request.
C20_Witness ==
    \E t, u \in Threads :
        /\ batch
        /\ token = None
        /\ ExchangeFailed(t)
        /\ pc[u] = "rf_wait" /\ lock = u
        /\ exch = 2

\* C21: get_auth_headers fails as get_token does.  When its exchange fails
\* the call raises that error, returns no mapping, and token and expires_at
\* are what they were; when it finds a valid token under the lock it sends
\* no request, and a mapping is returned only by a call that raised
\* nothing.
C21_HeadersFailLikeGetToken ==
    [][\A t \in Threads :
          op[t] = "get_auth_headers" =>
             /\ (pc[t] = "rf_wait" /\ pc'[t] = "idle") =>
                   /\ err'[t] \in FailureKinds
                   /\ ret'[t] = None
                   /\ <<token', expires_at'>> = <<token, expires_at>>
                   /\ lock' = NoThread
             /\ (pc[t] = "gt_lock" /\ pc'[t] # "gt_lock"
                    /\ ~Falsy(token) /\ expires_at # None
                    /\ now < Val(expires_at)) =>
                   /\ pc'[t] = "gt_return"
                   /\ <<exch', inflight'>> = <<exch, inflight>>
             /\ (pc[t] # "idle" /\ ret'[t] # None) =>
                   /\ pc[t] = "ah_return"
                   /\ err'[t] = "none"
      ]_vars

\* C21 witness: with a valid token cached a get_auth_headers call got its
\* mapping without an exchange, and after the token expired another one
\* made an exchange that failed and raised, the credential staying cached.
C21_Witness ==
    \E t, u \in Threads :
        /\ t # u
        /\ pc[t] = "idle" /\ op[t] = "get_auth_headers"
        /\ ~didExch[t] /\ ret[t] # None
        /\ op[u] = "get_auth_headers"
        /\ ExchangeFailed(u) /\ ret[u] = None
        /\ token = Some(JStr("T1"))
        /\ exch = 2

\* C25: whenever no refresh is in progress, is_token_valid evaluated at
\* that instant is true exactly when get_token's staleness test is false,
\* that is, when get_token would return the cached token with no exchange.
C25_SameStalenessPredicate ==
    lock = NoThread =>
        /\ IsTokenValid(token, expires_at, now)
              <=> ~NeedsRefresh(token, expires_at, now)
        /\ \A t \in Threads :
              (pc[t] = "iv_cmp" /\ obs[t][1] = tokGen /\ obs[t][2] = expGen
                  /\ loc[t].clock = now) =>
                  (IvNotExpired(loc[t].clock, expires_at)
                      <=> ~NeedsRefresh(token, expires_at, now))

\* C25 witness: nothing is in progress, the clock stands exactly at the
\* cached expiry, and an is_token_valid call that has read token and expiry
\* is about to compare.
C25_Witness ==
    \E t \in Threads :
        /\ lock = NoThread
        /\ pc[t] = "iv_cmp"
        /\ ~NoTokenCached
        /\ expires_at = Some(now)
        /\ loc[t].clock = now
        /\ tokGen = expGen
        /\ obs[t] = <<tokGen, expGen>>

\* Number of calling threads.
NThreads == Cardinality(Threads)

\* C26 as stated: when all callers called get_token together on an empty
\* or expired cache, all calls have ended and every exchange made failed,
\* then each caller made an exchange of its own (N exchanges) and each got
\* an error.
C26_Original ==
    (/\ BatchDone
     /\ Exchangers # {}
     /\ \A t \in Exchangers : ExchangeFailed(t)) =>
        /\ Exchangers = Threads
        /\ exch >= NThreads
        /\ \A t \in Threads : err[t] # "none"

\* C26 amended: a failed exchange is not shared.  Exchanges never overlap
\* and an error reaches only a caller whose own exchange raised it.  Of
\* the callers that called get_token together on an empty or expired
\* cache, each one that finds the cache empty or expired when it has the
\* lock sends a request of its own, and when that fails it gets the error
\* and no token, with token and expires_at left as they were; one that
\* finds the token unexpired (the clock was set back meanwhile) gets the
\* cached token without a request and without an error.  On an empty
\* cache all N callers make a failing exchange.
C26_FailureNotShared ==
    /\ [](/\ inflight <= 1
          /\ \A t \in Threads :
                (pc[t] = "idle" /\ op[t] = "get_token" /\ err[t] # "none")
                    => didExch[t]
          /\ (BatchDone /\ \A t \in Exchangers : ExchangeFailed(t)) =>
                /\ (Falsy(token) \/ expires_at = None)
                      => Exchangers = Threads
                /\ \A t \in Exchangers : ret[t] = None
                /\ \A t \in Threads \ Exchangers :
                      /\ err[t] = "none"
                      /\ ret[t] = token
                      /\ ~Falsy(token)
                      /\ expires_at # None
                /\ exch >= Cardinality(Exchangers)
                /\ tokGen <= exch - Cardinality(Exchangers)
                /\ expGen <= exch - Cardinality(Exchangers)
                /\ inflight = 0
                /\ lock = NoThread)
    /\ [][\A t \in Threads :
            /\ (batch /\ pc[t] = "gt_lock" /\ pc'[t] # "gt_lock") =>
                  IF \/ Falsy(token)
                     \/ expires_at = None
                     \/ now >= Val(expires_at)
                  THEN /\ pc'[t] = "rf_wait"
                       /\ exch' = exch + 1
                       /\ inflight = 0 /\ inflight' = 1
                  ELSE /\ pc'[t] = "gt_return"
                       /\ exch' = exch
                       /\ ~didExch'[t]
            /\ (batch /\ pc[t] = "rf_wait" /\ pc'[t] = "idle") =>
                  /\ err'[t] \in FailureKinds
                  /\ ret'[t] = None
                  /\ <<token', expires_at'>> = <<token, expires_at>>
                  /\ lock' = NoThread
         ]_vars

\* C26 witness: the callers arrived together on the empty cache, the
\* exchange of each failed, one after the other, and the cache is still
\* empty.
C26_Witness ==
    /\ BatchDone
    /\ \A t \in Threads : ExchangeFailed(t)
    /\ token = None
    /\ expires_at = None
    /\ exch = NThreads

\* C27: a construction that fails inside get_token_manager raises to the
\* caller of that call, publishes no instance and leaves _instance_lock
\* free; a call made while there is no instance goes for the lock and the
\* construction again; constructions happen only under _instance_lock, so
\* never two at the same time.
C27_FailedConstructionRetried ==
    [][\A t \in Threads :
          /\ (pc[t] = "gm_recheck" /\ pc'[t] # "gm_recheck"
                 /\ instance = None /\ MissingOrBlank) =>
                /\ nconstruct' = nconstruct + 1
                /\ err'[t] = "ValueError"
                /\ pc'[t] = "idle"
                /\ ret'[t] = None /\ ref'[t] = None
                /\ instance' = None
                /\ ilock' = NoThread
          /\ (pc[t] = "idle" /\ pc'[t] # "idle"
                 /\ op'[t] = "get_token_manager" /\ instance = None) =>
                pc'[t] = "gm_lock"
          /\ pc[t] = "gm_recheck" =>
                /\ ilock = t
                /\ \A u \in Threads \ {t} : pc[u] # "gm_recheck"
          /\ nconstruct' # nconstruct =>
                \E u \in Threads :
                   pc[u] = "gm_recheck" /\ ilock = u /\ pc'[u] # "gm_recheck"
      ]_vars

\* C27 witness: with a setting missing, one construction has failed with
\* ValueError and another caller now holds _instance_lock for the next
\* attempt.
C27_Witness ==
    \E t, u \in Threads :
        /\ MissingOrBlank
        /\ pc[t] = "idle" /\ err[t] = "ValueError"
        /\ nconstruct = 1
        /\ instance = None
        /\ pc[u] = "gm_recheck" /\ ilock = u

\* C30: get_token_manager tests the global without _instance_lock; seeing
\* an instance it returns it and never touches the lock; seeing none it
\* acquires the lock, tests again, and constructs exactly when this second
\* test still sees none.
C30_DoubleCheckedLocking ==
    [][\A t \in Threads :
          /\ (pc[t] = "idle" /\ pc'[t] # "idle"
                 /\ op'[t] = "get_token_manager") =>
                /\ pc'[t] = IF instance # None THEN "gm_return" ELSE "gm_lock"
                /\ <<instance', ilock', nconstruct'>> =
                      <<instance, ilock, nconstruct>>
          /\ (pc[t] = "gm_lock" /\ pc'[t] # "gm_lock") =>
                /\ ilock = NoThread /\ ilock' = t
                /\ pc'[t] = "gm_recheck"
                /\ <<instance', nconstruct'>> = <<instance, nconstruct>>
          /\ (pc[t] = "gm_recheck" /\ pc'[t] # "gm_recheck") =>
                /\ nconstruct' = nconstruct + 1 <=> instance = None
                /\ instance # None =>
                      instance' = instance /\ pc'[t] = "gm_return"
                /\ ilock' = NoThread
          /\ (pc[t] = "gm_return" /\ pc'[t] # "gm_return") =>
                /\ ret'[t] = PyObj(instance)
                /\ <<instance', ilock', nconstruct'>> =
                      <<instance, ilock, nconstruct>>
      ]_vars

\* C30 witness: a caller that saw no instance at the unguarded test holds
\* the lock at the second test while the instance is there, constructed by
\* a caller that has not returned yet.
C30_Witness ==
    \E t, u \in Threads :
        /\ pc[t] = "gm_return" /\ ref[t] = None
        /\ pc[u] = "gm_recheck" /\ ilock = u
        /\ instance # None
        /\ nconstruct = 1

\* C23 as stated: exchanges end in the order they were started (one at a
\* time, numbered as started), and whenever no call is inside the
\* check-and-refresh sequence the cached token and expires_at are the pair
\* of the most recently completed successful exchange, the last one that
\* stored an expiry.
C23_FreshestPairCached ==
    /\ inflight <= 1
    /\ expGen <= tokGen /\ tokGen <= exch
    /\ (lock = NoThread /\ expGen > 0) =>
          /\ tokGen = expGen
          /\ expires_at # None

\* The group in the mapping thread t got from its last get_auth_headers.
GroupOf(t) == Val(ret[t]).dict.AIResourceGroup

\* Thread t's last call was a get_auth_headers without resource_group
\* argument that returned its mapping.
GotDefaultGroup(t) ==
    /\ pc[t] = "idle"
    /\ op[t] = "get_auth_headers"
    /\ ret[t] # None
    /\ GroupOf(t) \notin {Val(a) : a \in GroupArgs \ {None}}

\* C22 as stated: the default group is fixed when the manager is
\* constructed, so all get_auth_headers calls made without argument on the
\* one manager return the same group, whatever happens to the environment.
C22_Original ==
    \A t, u \in Threads :
        (GotDefaultGroup(t) /\ GotDefaultGroup(u)) => GroupOf(t) = GroupOf(u)

\* C24 as stated: every request sent to the model carries a token the
\* cache judges valid when the request is issued: whenever a caller can
\* send a request, its api_key is the cached token and that token is
\* unexpired at that moment.
C24_RequestsCarryValidToken ==
    \A t \in Threads :
        ENABLED ChatRequest(t) =>
            /\ ret[t] = token
            /\ IsTokenValid(token, expires_at, now)

\* C29 as stated: the manager of sap_sample/token_manager.py, driven by the
\* same calls (get_token, force_refresh, get_auth_headers), the same clock
\* and the same exchange outcomes, on any standard output, decides to send
\* a request exactly when this manager does, holds the same (token,
\* expires_at) at every moment and gives each caller the same result or
\* error.
C29_ImplementationsEquivalent ==
    /\ sample.same
    /\ sample.token = token
    /\ sample.expires_at = expires_at

\* C28: under fair lock granting and terminating exchanges, every call of
\* get_token, force_refresh or get_auth_headers in progress, by any of the
\* concurrent callers, eventually ends (returns or raises): no caller waits
\* for the lock for ever, and none waits for a lock it holds itself.  (A
\* caller that has still to send its request when MaxExch requests have
\* been sent is left waiting.)
C28_CallsTerminate ==
    \A t \in Threads :
        InCacheCall(t) ~>
            \/ pc[t] = "idle"
            \/ pc[t] \in {"gt_lock", "fr_lock"} /\ exch >= MaxExch

\* Contention: a get_auth_headers caller waits for the lock while the
\* other thread holds it inside the exchange of a force_refresh, the first
\* request sent.
C28_Witness ==
    \E t, u \in Threads :
        /\ t # u
        /\ pc[t] = "gt_lock"
        /\ op[t] = "get_auth_headers"
        /\ lock = u
        /\ pc[u] = "rf_wait"
        /\ op[u] = "force_refresh"
        /\ exch = 1
        /\ exch < MaxExch

====
